---------------------------- MODULE Spec2Model ----------------------------
(***************************************************************************)
(* Marker cross-references, marker search documents, bulk indexing and     *)
(* search-query translation.                                               *)
(*                                                                         *)
(* Entity ids are modelled as pairs <<prefix, n>>: "la_3" is <<"la_", 3>>, *)
(* so that String.startsWith(prefix) is a test on the first component.     *)
(*                                                                         *)
(* Every await of the source is a step boundary: the database operation    *)
(* awaited is one atomic step, and other callers may run between two of    *)
(* them.                                                                   *)
(***************************************************************************)
EXTENDS Integers, Sequences, FiniteSets, TLC

(***************************************************************************)
(* Bounds of the model                                                     *)
(***************************************************************************)
NumLabels == 2       \* label ids la_1 .. la_NumLabels
MaxLabelIds == 3     \* longest labelIds list passed to Marker.setLabels
MaxCalls == 2        \* Marker.setLabels calls per behaviour
NumCallers == 2      \* callers that may be inside Marker.setLabels at once
MaxBuilds == 2       \* createMarkerSearchDoc calls per behaviour
MaxMarkers == 4      \* longest marker list passed to indexMarkers
MaxSlice == 3        \* largest configured index-slice-size
MaxIndexRuns == 2    \* indexMarkers calls per behaviour
MaxPage == 2         \* largest page asked of searchMarkers
MaxSearches == 2     \* searchMarkers calls per behaviour
MaxUpdates == 2      \* updateMarkers calls per behaviour
MaxSyncMarkers == 2  \* longest marker list passed to updateMarkers
ImagesPerPage == 1   \* images in one result page of getImages
MaxSceneChanges == 2 \* changes of currentMovie.scenes while the view is open
MaxUploads == 1      \* cover uploads while the view is open
MaxBuildRuns == 2    \* buildMarkerIndex calls

VARIABLES
  crossReferences,    \* database.store.crossReferences: set of {_id, from, to}
  nextId,             \* next fresh CrossReference _id (generateHash)
  labelStore,         \* ids of the labels present in the label store
  markerStore,        \* ids of the markers present in database.store.markers
  sceneStore,         \* ids of the scenes present in the scene store
  calls,              \* number of Marker.setLabels calls started so far
  pc,                 \* per caller: position inside Marker.setLabels
  slMarker,           \* per caller: argument marker (its _id)
  slLabelIds,         \* per caller: argument labelIds
  oldLabelReferences, \* per caller: _ids still to be removed
  toInsert,           \* per caller: ids of [...new Set(labelIds)] still to insert
  slOld,              \* per caller: label targets seen by the call's getBySource
  builds,             \* number of createMarkerSearchDoc calls started so far
  bPc,                \* position inside createMarkerSearchDoc
  bMarker,            \* its argument marker (its _id)
  bRefs,              \* targets of the label references Marker.getLabels read
  bLabels,            \* const labels
  bScene,             \* const scene
  doc,                \* the document returned, or the error thrown
  bMissing,           \* labels that were already deleted when the call began
  bWriter,            \* the Marker.setLabels call in progress when bRefs was read
  argvSlice,          \* argv["index-slice-size"]
  ixRuns,             \* number of indexMarkers calls started so far
  ixPc,               \* position inside indexMarkers
  ixMarkers,          \* its argument markers (their _ids)
  ixI,                \* number of markers the for-of loop has taken
  docs,               \* let docs
  numItems,           \* let numItems
  flushes,            \* the arguments of the call's index.index calls, in order
  ixResult,           \* the value indexMarkers returned, or the error it threw
  ixSame,             \* the call has the markers of the call before it
  indexBefore,        \* the index contents when the call began
  indexDocs,          \* the documents of the "markers" index, in insertion order
  sentIds,            \* _ids of the documents index.index and index.update were given
  updates,            \* number of updateMarkers calls started so far
  uPc,                \* per caller: position inside updateMarkers
  uMarkers,           \* per caller: argument markers (their _ids)
  uLabels,            \* per caller: const labels of the document being built
  uDocs,              \* per caller: the documents mapAsync has collected
  updateCalls,        \* per caller: the arguments of the call's index.update calls
  options,            \* searchMarkers: argument options
  shuffleSeed,        \* searchMarkers: argument shuffleSeed
  sPc,                \* position of the searchMarkers call
  searchArgs,         \* the arguments of the searchMarkers calls made
  searchCalls,        \* the arguments of the index.search calls made
  searchError,        \* the error searchMarkers threw, if any
  scenes,             \* MovieDetails.scenes, as scene ids
  images,             \* MovieDetails.images, as image ids
  imagePage,          \* MovieDetails.page
  infiniteId,         \* MovieDetails.infiniteId
  loading,            \* state of the infinite-loading component
  fetching,           \* the getImages queries in flight
  imageStore,         \* the images the server holds, by addedOn
  uploads,            \* cover uploads started so far
  uploading,          \* uploadImage mutations in flight
  nextImage,          \* number of the next image the server creates
  rmPc,               \* position of the removeImage call
  rmIndex,            \* the call's index argument
  rmId,               \* the id the call sent in the removeImages mutation
  indexHandle,        \* the module-level index: 0 unset, else the n-th index created
  bmPc,               \* position of the buildMarkerIndex call
  bmRuns              \* buildMarkerIndex calls so far

storeVars == <<crossReferences, nextId, labelStore, sceneStore>>
setLabelsVars == <<calls, pc, slMarker, slLabelIds, oldLabelReferences, toInsert, slOld>>
builderVars == <<builds, bPc, bMarker, bRefs, bLabels, bScene, doc, bMissing, bWriter>>
indexVars ==
  <<argvSlice, ixRuns, ixPc, ixMarkers, ixI, docs, numItems, flushes, ixResult, ixSame,
    indexBefore>>
engineVars == <<indexDocs, sentIds>>
markerVars == <<markerStore>>
handleVars == <<indexHandle, bmPc, bmRuns>>
viewVars ==
  <<scenes, images, imagePage, infiniteId, loading, fetching, imageStore, uploads,
    uploading, nextImage, rmPc, rmIndex, rmId>>
updateVars == <<updates, uPc, uMarkers, uLabels, uDocs, updateCalls>>
searchVars == <<options, shuffleSeed, sPc, searchArgs, searchCalls, searchError>>

\* what the operations on the store, indexMarkers and searchMarkers leave alone
outsideStore ==
  <<markerVars, indexVars, engineVars, updateVars, searchVars, viewVars, handleVars>>
outsideIndexCall ==
  <<storeVars, markerVars, setLabelsVars, builderVars, updateVars, searchVars, viewVars>>
outsideIndex == <<outsideIndexCall, handleVars>>
outsideSearch ==
  <<storeVars, markerVars, setLabelsVars, builderVars, indexVars, engineVars, updateVars,
    viewVars, handleVars>>
outsideUpdate ==
  <<markerVars, setLabelsVars, builderVars, indexVars, searchVars, viewVars, handleVars>>
outsideMarkers ==
  <<storeVars, setLabelsVars, builderVars, indexVars, engineVars, updateVars, searchVars,
    viewVars, handleVars>>
outsideView ==
  <<storeVars, markerVars, setLabelsVars, builderVars, indexVars, engineVars, updateVars,
    searchVars, handleVars>>

(***************************************************************************)
(* Identifiers and sequence helpers                                        *)
(***************************************************************************)
Mk(n) == <<"mk_", n>>
La(n) == <<"la_", n>>
Ac(n) == <<"ac_", n>>
Sc(n) == <<"sc_", n>>

StartsWith(id, prefix) == id[1] = prefix

MarkerIds == {Mk(1), Mk(2)}
LabelIds == {La(n) : n \in 1..NumLabels}
\* two callers may be inside updateMarkers at once
Updaters == {1, 2}
Callers == 1..NumCallers

Range(s) == {s[i] : i \in DOMAIN s}

RECURSIVE SeqsUpTo(_, _)
SeqsUpTo(S, n) ==
  IF n = 0 THEN {<<>>}
  ELSE LET shorter == SeqsUpTo(S, n - 1)
       IN  shorter \cup {Append(s, x) : s \in {t \in shorter : Len(t) = n - 1}, x \in S}

\* [...new Set(list)]: the distinct elements, in order of first occurrence
RECURSIVE Dedup(_)
Dedup(list) ==
  IF list = <<>> THEN <<>>
  ELSE LET front == Dedup(SubSeq(list, 1, Len(list) - 1))
           last == list[Len(list)]
       IN  IF last \in Range(front) THEN front ELSE Append(front, last)

\* the documents of a collection in insertion (_id) order
RECURSIVE ById(_)
ById(refs) ==
  IF refs = {} THEN <<>>
  ELSE LET first == CHOOSE r \in refs : \A q \in refs : r._id <= q._id
       IN  <<first>> \o ById(refs \ {first})

MapIds(refs) == [i \in 1..Len(refs) |-> refs[i]._id]

(***************************************************************************)
(* CrossReference store                                                    *)
(***************************************************************************)
\* CrossReference.getBySource(from)
GetBySource(from) == ById({r \in crossReferences : r.from = from})

IsAnyReference(r) == TRUE
IsLabelReference(r) == StartsWith(r.to, "la_")

\* the targets of the label edges a marker has in the store
LabelTargets(m) ==
  {r.to : r \in {q \in crossReferences : q.from = m /\ IsLabelReference(q)}}

\* database.remove(database.store.crossReferences, { _id: id })
DatabaseRemove(store, id) == {r \in store : r._id # id}

\* new CrossReference(from, to) and database.insert(...)
DatabaseInsert(store, id, from, to) ==
  store \cup {[_id |-> id, from |-> from, to |-> to]}

(***************************************************************************)
(* Marker.setLabels(marker, labelIds)                                      *)
(***************************************************************************)
\* the list of distinct ids the insert loop iterates over
InsertListNoDedup(labelIds) == labelIds
InsertList(labelIds) == Dedup(labelIds)

\* the call, up to and including its awaited CrossReference.getBySource
SetLabelsCall(p, m, labelIds) ==
  /\ pc[p] = "idle"
  /\ calls < MaxCalls
  /\ calls' = calls + 1
  /\ pc' = [pc EXCEPT ![p] = "running"]
  /\ slMarker' = [slMarker EXCEPT ![p] = m]
  /\ slLabelIds' = [slLabelIds EXCEPT ![p] = labelIds]
  /\ oldLabelReferences' =
       [oldLabelReferences EXCEPT
          ![p] = MapIds(SelectSeq(GetBySource(m), IsLabelReference))]
  /\ toInsert' = [toInsert EXCEPT ![p] = InsertList(labelIds)]
  /\ slOld' = [slOld EXCEPT ![p] = LabelTargets(m)]
  /\ UNCHANGED <<outsideStore, storeVars, builderVars>>

\* one iteration of the remove loop
SetLabelsRemove(p) ==
  /\ pc[p] = "running"
  /\ oldLabelReferences[p] # <<>>
  /\ crossReferences' = DatabaseRemove(crossReferences, Head(oldLabelReferences[p]))
  /\ oldLabelReferences' = [oldLabelReferences EXCEPT ![p] = Tail(@)]
  /\ UNCHANGED <<outsideStore, nextId, labelStore, sceneStore, calls, pc, slMarker, slLabelIds,
                 toInsert, slOld, builderVars>>

\* one iteration of the insert loop
SetLabelsInsert(p) ==
  /\ pc[p] = "running"
  /\ oldLabelReferences[p] = <<>>
  /\ toInsert[p] # <<>>
  /\ crossReferences' =
       DatabaseInsert(crossReferences, nextId, slMarker[p], Head(toInsert[p]))
  /\ nextId' = nextId + 1
  /\ toInsert' = [toInsert EXCEPT ![p] = Tail(@)]
  /\ UNCHANGED <<outsideStore, labelStore, sceneStore, calls, pc, slMarker, slLabelIds,
                 oldLabelReferences, slOld, builderVars>>

\* the promise of setLabels resolves
SetLabelsDone(p) ==
  /\ pc[p] = "running"
  /\ oldLabelReferences[p] = <<>>
  /\ toInsert[p] = <<>>
  /\ pc' = [pc EXCEPT ![p] = "done"]
  /\ UNCHANGED <<outsideStore, storeVars, calls, slMarker, slLabelIds, oldLabelReferences,
                 toInsert, slOld, builderVars>>

\* the caller takes the result and may call again
SetLabelsReturn(p) ==
  /\ pc[p] = "done"
  /\ pc' = [pc EXCEPT ![p] = "idle"]
  /\ slMarker' = [slMarker EXCEPT ![p] = Mk(1)]
  /\ slLabelIds' = [slLabelIds EXCEPT ![p] = <<>>]
  /\ slOld' = [slOld EXCEPT ![p] = {}]
  /\ UNCHANGED <<outsideStore, storeVars, calls, oldLabelReferences, toInsert, builderVars>>

(***************************************************************************)
(* Entities.  The marker, label, actor and scene documents are fixed; the  *)
(* label and scene stores record which of them still exist.                *)
(***************************************************************************)
Null == [null |-> TRUE]        \* null / undefined, where an entity is expected
EmptyId == <<"", 0>>         \* the empty string, where an id is expected
SceneIds == {Sc(1), Sc(2)}

MarkerEntity(m) ==
  IF m = Mk(1)
    THEN [_id |-> m, name |-> "marker one", addedOn |-> 100, favorite |-> TRUE,
          bookmark |-> 7, rating |-> 4, scene |-> Sc(1)]
    ELSE [_id |-> m, name |-> "marker two", addedOn |-> 200, favorite |-> FALSE,
          bookmark |-> 0, rating |-> 0, scene |-> Sc(2)]

LabelEntity(l) ==
  IF l = La(1) THEN [_id |-> l, name |-> "label one", aliases |-> <<"l1">>]
  ELSE [_id |-> l, name |-> "label", aliases |-> <<>>]

ActorEntity(a) == [_id |-> a, name |-> "actor one", aliases |-> <<"a1", "a1b">>]

SceneEntity(s) ==
  [_id |-> s, name |-> IF s = Sc(1) THEN "scene one" ELSE "scene two"]

\* Label.getById(id): the label, or null when the store has none
LabelGetById(id) == IF id \in labelStore THEN LabelEntity(id) ELSE Null

\* Scene.getById(id): the scene, or null when the store has none
SceneGetById(id) == IF id \in sceneStore THEN SceneEntity(id) ELSE Null

IsActorReference(r) == StartsWith(r.to, "ac_")

MapSeq(s, F(_)) == [i \in 1..Len(s) |-> F(s[i])]

RECURSIVE Flat(_)
Flat(ss) == IF ss = <<>> THEN <<>> ELSE Head(ss) \o Flat(Tail(ss))

RefTo(r) == r.to
IsNotNull(x) == x # Null

\* Scene.getActors(scene): the actors the scene's cross-references name; a
\* scene that no longer exists contributes none
SceneGetActors(scene) ==
  IF scene = Null THEN <<>>
  ELSE MapSeq(MapSeq(SelectSeq(GetBySource(scene._id), IsActorReference), RefTo),
              ActorEntity)

(***************************************************************************)
(* Marker.getLabels(marker)                                                *)
(***************************************************************************)
\* references.filter(r => r.to.startsWith("la_")), as the ids referred to
LabelReferenceTargets(m) == MapSeq(SelectSeq(GetBySource(m), IsLabelReference), RefTo)

\* (await mapAsync(refs, r => Label.getById(r.to))).filter(Boolean)
GetLabelsKeepNull(targets) == MapSeq(targets, LabelGetById)
GetLabelsResolve(targets) == SelectSeq(MapSeq(targets, LabelGetById), IsNotNull)

(***************************************************************************)
(* createMarkerSearchDoc(marker)                                           *)
(***************************************************************************)
TypeError == [error |-> "TypeError"]
IsDoc(d) == "error" \notin DOMAIN d

EntityId(e) == e._id
NameAndAliases(e) == <<e.name>> \o e.aliases

\* the object literal returned; reading a property of null throws
SearchDocUnguarded(marker, labels, scene, actors) ==
  IF Null \in Range(labels) \/ Null \in Range(actors) \/ scene = Null THEN TypeError
  ELSE [_id |-> marker._id, addedOn |-> marker.addedOn, name |-> marker.name,
        actors |-> MapSeq(actors, EntityId),
        actorNames |-> Flat(MapSeq(actors, NameAndAliases)),
        labels |-> MapSeq(labels, EntityId),
        labelNames |-> Flat(MapSeq(labels, NameAndAliases)),
        scene |-> scene._id, sceneName |-> scene.name,
        rating |-> marker.rating, bookmark |-> marker.bookmark,
        favorite |-> marker.favorite]

SearchDoc(marker, labels, scene, actors) ==
  IF Null \in Range(labels) \/ Null \in Range(actors) THEN TypeError
  ELSE [_id |-> marker._id, addedOn |-> marker.addedOn, name |-> marker.name,
        actors |-> MapSeq(actors, EntityId),
        actorNames |-> Flat(MapSeq(actors, NameAndAliases)),
        labels |-> MapSeq(labels, EntityId),
        labelNames |-> Flat(MapSeq(labels, NameAndAliases)),
        scene |-> IF scene # Null THEN scene._id ELSE EmptyId,
        sceneName |-> IF scene # Null THEN scene.name ELSE "",
        rating |-> marker.rating, bookmark |-> marker.bookmark,
        favorite |-> marker.favorite]

\* the whole function on an unchanging store
CreateMarkerSearchDoc(m) ==
  LET labels == GetLabelsResolve(LabelReferenceTargets(m))
      scene == SceneGetById(MarkerEntity(m).scene)
  IN  SearchDoc(MarkerEntity(m), labels, scene, SceneGetActors(scene))

NoDoc == [none |-> TRUE]

\* line 38, first await inside Marker.getLabels: CrossReference.getBySource
BuildGetBySource(m) ==
  /\ bPc = "idle"
  /\ builds < MaxBuilds
  /\ builds' = builds + 1
  /\ bPc' = "getLabels"
  /\ bMarker' = m
  /\ bRefs' = LabelReferenceTargets(m)
  /\ bMissing' = LabelIds \ labelStore
  /\ bWriter' =
       IF \E p \in Callers : pc[p] = "running" /\ slMarker[p] = m
         THEN LET p == CHOOSE q \in Callers : pc[q] = "running" /\ slMarker[q] = m
              IN  [during |-> TRUE, old |-> slOld[p], new |-> Range(slLabelIds[p])]
         ELSE [during |-> FALSE, old |-> {}, new |-> {}]
  /\ UNCHANGED <<outsideStore, storeVars, setLabelsVars, bLabels, bScene, doc>>

\* line 38, second await inside Marker.getLabels: the labels are looked up
BuildGetLabels ==
  /\ bPc = "getLabels"
  /\ bPc' = "getScene"
  /\ bLabels' = GetLabelsResolve(bRefs)
  /\ UNCHANGED <<outsideStore, storeVars, setLabelsVars, builds, bMarker, bRefs, bMissing, bWriter,
                 bScene, doc>>

\* line 39: Scene.getById
BuildGetScene ==
  /\ bPc = "getScene"
  /\ bPc' = "getActors"
  /\ bScene' = SceneGetById(MarkerEntity(bMarker).scene)
  /\ UNCHANGED <<outsideStore, storeVars, setLabelsVars, builds, bMarker, bRefs, bMissing, bWriter,
                 bLabels, doc>>

\* lines 40-55: Scene.getActors, then the document is returned
BuildGetActors ==
  /\ bPc = "getActors"
  /\ bPc' = "done"
  /\ doc' = SearchDoc(MarkerEntity(bMarker), bLabels, bScene, SceneGetActors(bScene))
  /\ UNCHANGED <<outsideStore, storeVars, setLabelsVars, builds, bMarker, bRefs, bMissing, bWriter,
                 bLabels, bScene>>

\* the caller takes the document
BuildReturn ==
  /\ bPc = "done"
  /\ bPc' = "idle"
  /\ bRefs' = <<>>
  /\ bLabels' = <<>>
  /\ bScene' = Null
  /\ bMissing' = {}
  /\ bWriter' = [during |-> FALSE, old |-> {}, new |-> {}]
  /\ doc' = NoDoc
  /\ UNCHANGED <<outsideStore, storeVars, setLabelsVars, builds, bMarker>>

(***************************************************************************)
(* Deletion of a label or a scene from its store                           *)
(***************************************************************************)
DeleteLabel(l) ==
  /\ l \in labelStore
  /\ labelStore' = labelStore \ {l}
  /\ UNCHANGED <<outsideStore, crossReferences, nextId, sceneStore, setLabelsVars, builderVars>>

DeleteScene(s) ==
  /\ s \in sceneStore
  /\ sceneStore' = sceneStore \ {s}
  /\ UNCHANGED <<outsideStore, crossReferences, nextId, labelStore, setLabelsVars, builderVars>>

(***************************************************************************)
(* Marker.remove(_id) and Marker.removeByScene(scene)                      *)
(***************************************************************************)
\* database.remove(database.store.markers, { _id })
MarkerRemove(id) ==
  /\ id \in markerStore
  /\ markerStore' = markerStore \ {id}
  /\ UNCHANGED outsideMarkers

\* database.remove(database.store.markers, { scene: scene._id })
MarkerRemoveByScene(scene) ==
  /\ \E m \in markerStore : MarkerEntity(m).scene = scene
  /\ markerStore' = {m \in markerStore : MarkerEntity(m).scene # scene}
  /\ UNCHANGED outsideMarkers

(***************************************************************************)
(* The movie details view (MovieDetails), while currentMovie is set:       *)
(* scenes, images, page and the requests it has in flight.                 *)
(***************************************************************************)
Im(n) == <<"im_", n>>
InitialImages ==
  << [_id |-> Im(1), scene |-> Sc(1)],
     [_id |-> Im(2), scene |-> Sc(2)],
     [_id |-> Im(3), scene |-> Sc(1)] >>
ScenesValues == {<<Sc(1)>>, <<Sc(2)>>, <<Sc(1), Sc(2)>>}

RECURSIVE KeepImages(_, _)
KeepImages(store, sc) ==
  IF store = <<>> THEN <<>>
  ELSE (IF Head(store).scene \in Range(sc) THEN <<Head(store)._id>> ELSE <<>>)
         \o KeepImages(Tail(store), sc)

\* getImages(query: {page, sortDir: "asc", sortBy: "addedOn", scenes}).items
GetImages(store, pg, sc) ==
  LET found == KeepImages(store, sc)
      first == pg * ImagesPerPage + 1
      last == IF (pg + 1) * ImagesPerPage < Len(found)
                THEN (pg + 1) * ImagesPerPage ELSE Len(found)
  IN IF first > last THEN <<>> ELSE SubSeq(found, first, last)

\* images.splice(index, 1), index counted from 1 here
Splice(list, index) ==
  IF index \in 1..Len(list)
    THEN SubSeq(list, 1, index - 1) \o SubSeq(list, index + 1, Len(list))
    ELSE list

\* one element of a sequence taken out
WithoutAt(list, i) == SubSeq(list, 1, i - 1) \o SubSeq(list, i + 1, Len(list))

\* @infinite: the component asks for more; fetchPage sends the query
InfiniteHandler ==
  /\ Len(scenes) > 0
  /\ loading = "ready"
  /\ loading' = "loading"
  /\ fetching' = Append(fetching, [page |-> imagePage, scenes |-> scenes])
  /\ UNCHANGED <<scenes, images, imagePage, infiniteId, imageStore, uploads, uploading,
                 nextImage, rmPc, rmIndex, rmId>>
  /\ UNCHANGED outsideView

\* the query answers; infiniteHandler's then callback
FetchThen(i) ==
  /\ i \in 1..Len(fetching)
  /\ LET items == GetImages(imageStore, fetching[i].page, fetching[i].scenes)
     IN IF Len(items) > 0
          THEN /\ imagePage' = imagePage + 1
               /\ images' = images \o items
               /\ loading' = "ready"
          ELSE /\ loading' = "complete"
               /\ UNCHANGED <<imagePage, images>>
  /\ fetching' = WithoutAt(fetching, i)
  /\ UNCHANGED <<scenes, infiniteId, imageStore, uploads, uploading, nextImage, rmPc,
                 rmIndex, rmId>>
  /\ UNCHANGED outsideView

\* @Watch("currentMovie.scenes"): onSceneChange(newVal)
OnSceneChange(newVal) ==
  /\ infiniteId < MaxSceneChanges
  /\ newVal # scenes
  /\ scenes' = newVal
  /\ images' = <<>>
  /\ infiniteId' = infiniteId + 1
  /\ loading' = "ready"
  /\ UNCHANGED <<imagePage, fetching, imageStore, uploads, uploading, nextImage, rmPc,
                 rmIndex, rmId>>
  /\ UNCHANGED outsideView

\* uploadFrontCover / uploadBackCover: the uploadImage mutation is sent
UploadCover ==
  /\ uploads < MaxUploads
  /\ uploads' = uploads + 1
  /\ uploading' = uploading + 1
  /\ UNCHANGED <<scenes, images, imagePage, infiniteId, loading, fetching, imageStore,
                 nextImage, rmPc, rmIndex, rmId>>
  /\ UNCHANGED outsideView

\* the upload answers with the new image; the then callback
UploadCoverThen ==
  /\ uploading > 0
  /\ uploading' = uploading - 1
  /\ imageStore' = Append(imageStore, [_id |-> Im(nextImage), scene |-> EmptyId])
  /\ nextImage' = nextImage + 1
  /\ images' = <<Im(nextImage)>> \o images
  /\ UNCHANGED <<scenes, imagePage, infiniteId, loading, fetching, uploads, rmPc, rmIndex,
                 rmId>>
  /\ UNCHANGED outsideView

\* removeImage(index): the removeImages mutation is sent
RemoveImageCall(index) ==
  /\ rmPc \notin {"sent", "served"}
  /\ index \in 1..Len(images)
  /\ rmPc' = "sent"
  /\ rmIndex' = index
  /\ rmId' = images[index]
  /\ UNCHANGED <<scenes, images, imagePage, infiniteId, loading, fetching, imageStore,
                 uploads, uploading, nextImage>>
  /\ UNCHANGED outsideView

\* the server removes the image
RemoveImagesServed ==
  /\ rmPc = "sent"
  /\ rmPc' = "served"
  /\ imageStore' = SelectSeq(imageStore, LAMBDA i : i._id # rmId)
  /\ UNCHANGED <<scenes, images, imagePage, infiniteId, loading, fetching, uploads,
                 uploading, nextImage, rmIndex, rmId>>
  /\ UNCHANGED outsideView

\* the mutation answers; removeImage's then callback
RemoveImageThen ==
  /\ rmPc = "served"
  /\ rmPc' = "removed"
  /\ images' = Splice(images, rmIndex)
  /\ UNCHANGED <<scenes, imagePage, infiniteId, loading, fetching, imageStore, uploads,
                 uploading, nextImage, rmIndex, rmId>>
  /\ UNCHANGED outsideView

\* the mutation fails; removeImage's catch callback
RemoveImageCatch ==
  /\ rmPc = "sent"
  /\ rmPc' = "failed"
  /\ UNCHANGED <<scenes, images, imagePage, infiniteId, loading, fetching, imageStore,
                 uploads, uploading, nextImage, rmIndex, rmId>>
  /\ UNCHANGED outsideView

(***************************************************************************)
(* indexMarkers(markers)                                                   *)
(*                                                                         *)
(* A configured number is the fraction num/den, so that slice sizes that   *)
(* no array length equals (3/2, -1) are values of the option too.          *)
(***************************************************************************)
Absent == [absent |-> TRUE]
Number(n) == [num |-> n, den |-> 1]
DefaultSliceSize == 5000

SliceValues ==
  {Absent} \cup {Number(n) : n \in -1..MaxSlice} \cup {[num |-> 3, den |-> 2]}

\* argv["index-slice-size"] || 5000
SliceSize(argv) ==
  IF argv = Absent \/ argv.num = 0 THEN Number(DefaultSliceSize) ELSE argv

\* docs.length === (argv["index-slice-size"] || 5000)
SliceReached(len, argv) == len * SliceSize(argv).den = SliceSize(argv).num

\* if (docs.length)
FinalFlushAlways(batch) == TRUE
FinalFlushNeeded(batch) == Len(batch) # 0

\* numItems += docs.length
CountFlushes(count, batch) == count + 1
CountDocs(count, batch) == count + Len(batch)

NoResult == -1

(***************************************************************************)
(* The index engine (Gianna): a collection of documents keyed by _id.      *)
(* index(docs) and update(docs) put each document in the place of the one  *)
(* with its _id, or add it when there is none.                             *)
(***************************************************************************)
PositionOf(items, id) ==
  IF \E i \in 1..Len(items) : items[i]._id = id
    THEN CHOOSE i \in 1..Len(items) :
           items[i]._id = id /\ \A j \in 1..(i - 1) : items[j]._id # id
    ELSE 0

ReplaceOrAdd(items, d) ==
  IF PositionOf(items, d._id) = 0
    THEN Append(items, d)
    ELSE [items EXCEPT ![PositionOf(items, d._id)] = d]

IndexAppend(items, batch) == items \o batch

RECURSIVE IndexUpsert(_, _)
IndexUpsert(items, batch) ==
  IF batch = <<>> THEN items
  ELSE IndexUpsert(ReplaceOrAdd(items, Head(batch)), Tail(batch))

DocIds(batch) == {batch[i]._id : i \in 1..Len(batch)}

\* lines 58-64: index.index(docs), awaited
AddMarkerSearchDocs(batch) ==
  /\ indexDocs' = IndexUpsert(indexDocs, batch)
  /\ sentIds' = sentIds \cup DocIds(batch)

\* lines 79 and 85: docs = []
AfterFlushKept(batch) == batch
AfterFlush(batch) == <<>>

IndexMarkersEnter(markers) ==
  /\ ixPc = "idle"
  /\ ixRuns < MaxIndexRuns
  /\ ixRuns' = ixRuns + 1
  /\ ixPc' = "loop"
  /\ ixMarkers' = markers
  /\ ixI' = 0
  /\ docs' = <<>>
  /\ numItems' = 0
  /\ flushes' = <<>>
  /\ ixResult' = NoResult
  /\ ixSame' = (ixRuns > 0 /\ markers = ixMarkers)
  /\ indexBefore' = indexDocs
  /\ UNCHANGED <<outsideIndexCall, engineVars, argvSlice>>

\* indexMarkers called on its own
IndexMarkersCall(markers) ==
  /\ IndexMarkersEnter(markers)
  /\ UNCHANGED handleVars

\* lines 73-76: the next marker's document is built and pushed
CanBuild == ixPc = "loop" /\ ixI < Len(ixMarkers)
CanFlush == ixPc = "flush"
CanEndLoop == ixPc = "loop" /\ ixI = Len(ixMarkers)
CanFinalFlush == ixPc = "finalFlush"

IndexLoopBuild ==
  /\ CanBuild
  /\ LET d == CreateMarkerSearchDoc(ixMarkers[ixI + 1])
     IN  IF IsDoc(d)
           THEN /\ docs' = Append(docs, d)
                /\ ixI' = ixI + 1
                /\ ixPc' = IF SliceReached(Len(docs) + 1, argvSlice)
                             THEN "flush" ELSE "loop"
           ELSE /\ ixPc' = "failed"
                /\ UNCHANGED <<docs, ixI>>
  /\ UNCHANGED <<outsideIndex, engineVars, argvSlice, ixRuns, ixMarkers, numItems, flushes,
                 ixResult, ixSame, indexBefore>>

\* lines 77-79: a full batch is flushed
IndexLoopFlush ==
  /\ CanFlush
  /\ AddMarkerSearchDocs(docs)
  /\ flushes' = Append(flushes, docs)
  /\ numItems' = CountDocs(numItems, docs)
  /\ docs' = AfterFlush(docs)
  /\ ixPc' = "loop"
  /\ UNCHANGED <<outsideIndex, argvSlice, ixRuns, ixMarkers, ixI, ixResult, ixSame,
                 indexBefore>>

\* line 82, and lines 86-87 when no document is left
IndexLoopEnd ==
  /\ CanEndLoop
  /\ IF FinalFlushNeeded(docs)
       THEN /\ ixPc' = "finalFlush"
            /\ UNCHANGED ixResult
       ELSE /\ ixPc' = "done"
            /\ ixResult' = numItems
  /\ UNCHANGED <<outsideIndex, engineVars, argvSlice, ixRuns, ixMarkers, ixI, docs, numItems,
                 flushes, ixSame, indexBefore>>

\* lines 83-87: the final partial batch is flushed and the count returned
IndexFinalFlush ==
  /\ CanFinalFlush
  /\ AddMarkerSearchDocs(docs)
  /\ flushes' = Append(flushes, docs)
  /\ numItems' = CountDocs(numItems, docs)
  /\ docs' = AfterFlush(docs)
  /\ ixPc' = "done"
  /\ ixResult' = CountDocs(numItems, docs)
  /\ UNCHANGED <<outsideIndex, argvSlice, ixRuns, ixMarkers, ixI, ixSame, indexBefore>>

\* the caller takes the count
IndexReturn ==
  /\ ixPc = "done"
  /\ ixPc' = "idle"
  /\ ixSame' = FALSE
  /\ indexBefore' = <<>>
  /\ UNCHANGED <<outsideIndex, engineVars, argvSlice, ixRuns, ixMarkers, ixI, docs, numItems,
                 flushes, ixResult>>

\* what a rejected index.index call throws: the index client's error
IndexError == [error |-> "IndexError"]

\* lines 77 and 83: the awaited addMarkerSearchDocs rejects; nothing catches
\* it, so indexMarkers rejects with the same error.  The index engine may or
\* may not have taken the batch.
IndexFlushFails(taken) ==
  /\ CanFlush \/ CanFinalFlush
  /\ IF taken THEN AddMarkerSearchDocs(docs) ELSE UNCHANGED engineVars
  /\ ixPc' = "failed"
  /\ ixResult' = IndexError
  /\ UNCHANGED <<outsideIndex, argvSlice, ixRuns, ixMarkers, ixI, docs, numItems, flushes,
                 ixSame, indexBefore>>

\* the caller calls indexMarkers again with the same markers
IndexMarkersRetry ==
  /\ ixPc = "failed"
  /\ ixRuns < MaxIndexRuns
  /\ ixRuns' = ixRuns + 1
  /\ ixPc' = "loop"
  /\ ixI' = 0
  /\ docs' = <<>>
  /\ numItems' = 0
  /\ flushes' = <<>>
  /\ ixResult' = NoResult
  /\ ixSame' = TRUE
  /\ indexBefore' = indexDocs
  /\ UNCHANGED <<outsideIndex, engineVars, argvSlice, ixMarkers>>

IndexStep ==
  \/ IndexLoopBuild
  \/ IndexLoopFlush
  \/ IndexLoopEnd
  \/ IndexFinalFlush
  \/ IndexReturn

(***************************************************************************)
(* buildMarkerIndex()                                                      *)
(***************************************************************************)
\* Marker.getAll(): the markers of the store
GetAll(store) ==
  SelectSeq(<<Mk(1), Mk(2)>>, LAMBDA m : m \in store)

\* index = await Gianna.createIndex("markers", FIELDS)
BuildCreateIndex ==
  /\ bmPc = "idle"
  /\ ixPc = "idle"
  /\ bmRuns < MaxBuildRuns
  /\ bmRuns' = bmRuns + 1
  /\ indexHandle' = indexHandle + 1
  /\ indexDocs' = <<>>
  /\ bmPc' = "created"
  /\ UNCHANGED <<outsideIndexCall, indexVars, sentIds>>

\* indexMarkers(await Marker.getAll()) begins
BuildIndexMarkers ==
  /\ bmPc = "created"
  /\ IndexMarkersEnter(GetAll(markerStore))
  /\ bmPc' = "indexing"
  /\ UNCHANGED <<indexHandle, bmRuns>>

\* indexMarkers has returned res; return index
BuildMarkerIndexReturn ==
  /\ bmPc = "indexing"
  /\ ixPc = "idle"
  /\ bmPc' = "idle"
  /\ UNCHANGED <<outsideIndexCall, indexVars, engineVars, indexHandle, bmRuns>>

(***************************************************************************)
(* updateMarkers(markers)                                                  *)
(*                                                                         *)
(* mapAsync builds the documents in the order of markers; every await of   *)
(* createMarkerSearchDoc is a point where other calls may run.  The        *)
(* awaits inside Marker.getLabels are one step, Scene.getById and          *)
(* Scene.getActors another.                                                *)
(***************************************************************************)
UpdateMarkersEnter(u, markers) ==
  /\ uPc[u] = "idle"
  /\ updates < MaxUpdates
  /\ updates' = updates + 1
  /\ uPc' = [uPc EXCEPT ![u] = IF markers = <<>> THEN "update" ELSE "labels"]
  /\ uMarkers' = [uMarkers EXCEPT ![u] = markers]
  /\ uLabels' = [uLabels EXCEPT ![u] = <<>>]
  /\ uDocs' = [uDocs EXCEPT ![u] = <<>>]
  /\ updateCalls' = [updateCalls EXCEPT ![u] = <<>>]

UpdateCall(u, markers) ==
  /\ UpdateMarkersEnter(u, markers)
  /\ UNCHANGED <<outsideUpdate, storeVars, engineVars>>

\* a caller deletes a label and then calls updateMarkers
MutateThenUpdate(u, l, markers) ==
  /\ l \in labelStore
  /\ labelStore' = labelStore \ {l}
  /\ UpdateMarkersEnter(u, markers)
  /\ UNCHANGED <<outsideUpdate, crossReferences, nextId, sceneStore, engineVars>>

\* the marker whose document is being built
UpdateMarker(u) == uMarkers[u][Len(uDocs[u]) + 1]

\* line 38: const labels = await Marker.getLabels(marker)
UpdateGetLabels(u) ==
  /\ uPc[u] = "labels"
  /\ uLabels' = [uLabels EXCEPT ![u] = GetLabelsResolve(LabelReferenceTargets(UpdateMarker(u)))]
  /\ uPc' = [uPc EXCEPT ![u] = "doc"]
  /\ UNCHANGED <<outsideUpdate, storeVars, engineVars, updates, uMarkers, uDocs, updateCalls>>

\* lines 39-55: scene, actors and the document
UpdateBuildDoc(u) ==
  /\ uPc[u] = "doc"
  /\ LET scene == SceneGetById(MarkerEntity(UpdateMarker(u)).scene)
         d == SearchDoc(MarkerEntity(UpdateMarker(u)), uLabels[u], scene, SceneGetActors(scene))
     IN  IF IsDoc(d)
           THEN /\ uDocs' = [uDocs EXCEPT ![u] = Append(uDocs[u], d)]
                /\ uPc' = [uPc EXCEPT ![u] =
                            IF Len(uDocs[u]) + 1 = Len(uMarkers[u]) THEN "update" ELSE "labels"]
           ELSE /\ uPc' = [uPc EXCEPT ![u] = "failed"]
                /\ UNCHANGED uDocs
  /\ UNCHANGED <<outsideUpdate, storeVars, engineVars, updates, uMarkers, uLabels, updateCalls>>

\* line 67: the argument of index.update
UpdateArgumentFirstOnly(built) == IF built = <<>> THEN <<>> ELSE <<Head(built)>>
UpdateArgument(built) == built

\* line 67: index.update(docs)
UpdateIndex(u) ==
  /\ uPc[u] = "update"
  /\ indexDocs' = IndexUpsert(indexDocs, UpdateArgument(uDocs[u]))
  /\ sentIds' = sentIds \cup DocIds(UpdateArgument(uDocs[u]))
  /\ updateCalls' = [updateCalls EXCEPT ![u] = Append(updateCalls[u], UpdateArgument(uDocs[u]))]
  /\ uPc' = [uPc EXCEPT ![u] = "done"]
  /\ UNCHANGED <<outsideUpdate, storeVars, updates, uMarkers, uLabels, uDocs>>

\* the caller takes the result
UpdateReturn(u) ==
  /\ uPc[u] = "done"
  /\ uPc' = [uPc EXCEPT ![u] = "idle"]
  /\ uMarkers' = [uMarkers EXCEPT ![u] = <<>>]
  /\ uLabels' = [uLabels EXCEPT ![u] = <<>>]
  /\ uDocs' = [uDocs EXCEPT ![u] = <<>>]
  /\ updateCalls' = [updateCalls EXCEPT ![u] = <<>>]
  /\ UNCHANGED <<outsideUpdate, storeVars, engineVars, updates>>

UpdateStep(u) ==
  \/ UpdateGetLabels(u)
  \/ UpdateBuildDoc(u)
  \/ UpdateIndex(u)
  \/ UpdateReturn(u)

(***************************************************************************)
(* searchMarkers(options, shuffleSeed)                                     *)
(*                                                                         *)
(* options is a partial record: an option that is not given (undefined) is *)
(* a field the record does not have.  In the same way a property that is   *)
(* set to undefined is a field the object does not have.                   *)
(***************************************************************************)
Has(o, f) == f \in DOMAIN o

PageSize == 24

\* filterFavorites .. filterExclude: one child per active filter
FavoriteChild(o) ==
  IF Has(o, "favorite") /\ o.favorite
    THEN <<[property |-> "favorite", operation |-> "=", value |-> <<TRUE>>]>>
    ELSE <<>>
BookmarkChild(o) ==
  IF Has(o, "bookmark") /\ o.bookmark
    THEN <<[property |-> "bookmark", operation |-> "exists", value |-> <<>>]>>
    ELSE <<>>
RatingChild(o) ==
  IF Has(o, "rating") /\ o.rating # 0
    THEN <<[property |-> "rating", operation |-> ">=", value |-> <<o.rating>>]>>
    ELSE <<>>
IncludeChild(o) ==
  IF Has(o, "include") /\ o.include # <<>>
    THEN <<[property |-> "labels", operation |-> "all", value |-> o.include]>>
    ELSE <<>>
ExcludeChild(o) ==
  IF Has(o, "exclude") /\ o.exclude # <<>>
    THEN <<[property |-> "labels", operation |-> "none", value |-> o.exclude]>>
    ELSE <<>>

FilterRatingFirst(o) ==
  [type |-> "AND",
   children |-> FavoriteChild(o) \o RatingChild(o) \o BookmarkChild(o)
                  \o IncludeChild(o) \o ExcludeChild(o)]

\* lines 125-134
Filter(o) ==
  [type |-> "AND",
   children |-> FavoriteChild(o) \o BookmarkChild(o) \o RatingChild(o)
                  \o IncludeChild(o) \o ExcludeChild(o)]

\* an argument that may be undefined: <<>> when it is, <<v>> when it is v
Arg(o, f) == IF Has(o, f) THEN <<o[f]>> ELSE <<>>

Given(arg) == arg # <<>> /\ arg[1] # 0

\* buildPagination(take, skip, page)
BuildPagination(take, skip, page) ==
  [take |-> IF Given(take) THEN take[1] ELSE PageSize,
   skip |-> IF Given(skip) THEN skip[1]
            ELSE IF page # <<>> THEN page[1] * PageSize ELSE 0]

\* lines 145-150: the object literal indexed by options.sortBy
SortTypes ==
  [addedOn |-> "number", name |-> "string", rating |-> "number", bookmark |-> "number"]

\* options.sortDir === "asc"
SortAscUnlessDesc(o) == ~(Has(o, "sortDir") /\ o.sortDir = "desc")
SortAsc(o) == Has(o, "sortDir") /\ o.sortDir = "asc"

NoSort == [undefined |-> TRUE]

SortIgnoringSeed(o, seed) ==
  IF ~Has(o, "sortBy") \/ o.sortBy = "" THEN NoSort
  ELSE IF o.sortBy = "$shuffle"
    THEN [sort_by |-> "$shuffle", sort_asc |-> FALSE, sort_type |-> "default"]
  ELSE IF o.sortBy \in DOMAIN SortTypes
    THEN [sort_by |-> o.sortBy, sort_asc |-> SortAsc(o), sort_type |-> SortTypes[o.sortBy]]
  ELSE [sort_by |-> o.sortBy, sort_asc |-> SortAsc(o)]

\* lines 124, 136-160: let sort
Sort(o, seed) ==
  IF ~Has(o, "sortBy") \/ o.sortBy = "" THEN NoSort
  ELSE IF o.sortBy = "$shuffle"
    THEN [sort_by |-> "$shuffle", sort_asc |-> FALSE, sort_type |-> seed]
  ELSE IF o.sortBy \in DOMAIN SortTypes
    THEN [sort_by |-> o.sortBy, sort_asc |-> SortAsc(o), sort_type |-> SortTypes[o.sortBy]]
  ELSE [sort_by |-> o.sortBy, sort_asc |-> SortAsc(o)]

SearchRequestPageAsSkip(o, seed) ==
  (IF Has(o, "query") THEN "query" :> o.query ELSE <<>>)
    @@ [sort |-> Sort(o, seed), filter |-> Filter(o)]
    @@ BuildPagination(Arg(o, "take"), Arg(o, "page"), Arg(o, "skip"))

\* lines 162-167: the argument of index.search
SearchRequest(o, seed) ==
  (IF Has(o, "query") THEN "query" :> o.query ELSE <<>>)
    @@ [sort |-> Sort(o, seed), filter |-> Filter(o)]
    @@ BuildPagination(Arg(o, "take"), Arg(o, "skip"), Arg(o, "page"))

SearchMarkers ==
  /\ sPc = "idle"
  /\ sPc' = "done"
  /\ searchArgs' = Append(searchArgs, [options |-> options, shuffleSeed |-> shuffleSeed])
  /\ searchCalls' = Append(searchCalls, SearchRequest(options, shuffleSeed))
  /\ UNCHANGED <<outsideSearch, options, shuffleSeed,
                 searchError>>

\* searchMarkers while the handle is set: index.search is called
SearchServed ==
  /\ indexHandle > 0
  /\ SearchMarkers

\* searchMarkers while the handle is unset: index.search throws
SearchUnset ==
  /\ indexHandle = 0
  /\ sPc = "idle"
  /\ sPc' = "done"
  /\ searchError' = "TypeError"
  /\ UNCHANGED <<outsideSearch, options, shuffleSeed, searchArgs, searchCalls>>

\* the caller takes the result or the error; another search may follow
SearchReturn ==
  /\ sPc = "done"
  /\ Len(searchCalls) < MaxSearches
  /\ sPc' = "idle"
  /\ searchError' = "none"
  /\ UNCHANGED <<outsideSearch, options, shuffleSeed, searchArgs, searchCalls>>

(***************************************************************************)
(* Initial store: marker mk_1 carries some labels and one non-label edge,  *)
(* marker mk_2 carries label la_1.                                         *)
(***************************************************************************)
InitialLabelSets == {<<>>, <<La(1)>>, <<La(1), La(2)>>}

InitialReferences(labels) ==
  {[_id |-> i, from |-> Mk(1), to |-> labels[i]] : i \in DOMAIN labels}
    \cup {[_id |-> 3, from |-> Mk(1), to |-> Ac(1)],
          [_id |-> 4, from |-> Mk(2), to |-> La(1)],
          [_id |-> 5, from |-> Sc(1), to |-> Ac(1)]}

FirstFreeId == 6

InitReferences ==
  /\ \E labels \in InitialLabelSets : crossReferences = InitialReferences(labels)
  /\ nextId = FirstFreeId

InitStore ==
  /\ InitReferences
  /\ labelStore = LabelIds
  /\ sceneStore = SceneIds

InitSetLabels ==
  /\ calls = 0
  /\ pc = [p \in Callers |-> "idle"]
  /\ slMarker = [p \in Callers |-> Mk(1)]
  /\ slLabelIds = [p \in Callers |-> <<>>]
  /\ oldLabelReferences = [p \in Callers |-> <<>>]
  /\ toInsert = [p \in Callers |-> <<>>]
  /\ slOld = [p \in Callers |-> {}]

InitBuilder ==
  /\ builds = 0
  /\ bPc = "idle"
  /\ bMarker = Mk(1)
  /\ bRefs = <<>>
  /\ bLabels = <<>>
  /\ bScene = Null
  /\ doc = NoDoc
  /\ bMissing = {}
  /\ bWriter = [during |-> FALSE, old |-> {}, new |-> {}]

\* both markers are in the markers store
InitMarkers == markerStore = MarkerIds

\* the view after onLoad: the movie's scenes are set, nothing is loaded yet
InitViewIdle ==
  /\ scenes = <<Sc(1)>>
  /\ images = <<>>
  /\ imagePage = 0
  /\ infiniteId = 0
  /\ loading = "ready"
  /\ fetching = <<>>
  /\ imageStore = InitialImages
  /\ uploads = 0
  /\ uploading = 0
  /\ nextImage = Len(InitialImages) + 1
  /\ rmPc = "idle"
  /\ rmIndex = 0
  /\ rmId = EmptyId

\* Gianna.createIndex: the index starts without documents
InitEngine ==
  /\ indexDocs = <<>>
  /\ sentIds = {}

InitUpdateIdle ==
  /\ updates = 0
  /\ uPc = [u \in Updaters |-> "idle"]
  /\ uMarkers = [u \in Updaters |-> <<>>]
  /\ uLabels = [u \in Updaters |-> <<>>]
  /\ uDocs = [u \in Updaters |-> <<>>]
  /\ updateCalls = [u \in Updaters |-> <<>>]

InitIndexRun ==
  /\ ixRuns = 0
  /\ ixPc = "idle"
  /\ ixMarkers = <<>>
  /\ ixI = 0
  /\ docs = <<>>
  /\ numItems = 0
  /\ flushes = <<>>
  /\ ixResult = NoResult
  /\ ixSame = FALSE
  /\ indexBefore = <<>>
  /\ InitEngine
  /\ InitUpdateIdle
  /\ InitMarkers
  /\ InitViewIdle

\* buildMarkerIndex not called yet: the handle is unset
InitUnbuilt ==
  /\ indexHandle = 0
  /\ bmPc = "idle"
  /\ bmRuns = 0

\* the handle once an index has been created
InitHandle ==
  /\ indexHandle = 1
  /\ bmPc = "idle"
  /\ bmRuns = 0

InitIndexIdle == InitIndexRun /\ InitHandle

InitSearchIdle ==
  /\ options = <<>>
  /\ shuffleSeed = "default"
  /\ sPc = "idle"
  /\ searchArgs = <<>>
  /\ searchCalls = <<>>
  /\ searchError = "none"

vars ==
  <<storeVars, markerVars, setLabelsVars, builderVars, indexVars, engineVars, updateVars,
    searchVars, viewVars, handleVars>>

Init ==
  /\ InitStore /\ InitSetLabels /\ InitBuilder
  /\ argvSlice = Absent /\ InitIndexIdle /\ InitSearchIdle

SetLabelsStep(p) ==
  \/ SetLabelsRemove(p)
  \/ SetLabelsInsert(p)
  \/ SetLabelsDone(p)
  \/ SetLabelsReturn(p)

LabelIdLists == SeqsUpTo(LabelIds, MaxLabelIds)

\* a caller enters Marker.setLabels while no other call is in progress
SetLabelsCallAlone(p, m, ids) ==
  /\ \A q \in Callers : pc[q] = "idle"
  /\ SetLabelsCall(p, m, ids)

(***************************************************************************)
(* Spec: Marker.setLabels calls, one at a time.                            *)
(***************************************************************************)
Next ==
  \E p \in Callers :
    \/ \E ids \in LabelIdLists : SetLabelsCallAlone(p, Mk(1), ids)
    \/ SetLabelsStep(p)

Spec == Init /\ [][Next]_vars

(***************************************************************************)
(* SpecRead: Marker.setLabels calls, one at a time, while documents are    *)
(* built (createMarkerSearchDoc reads the marker's labels).                *)
(***************************************************************************)
BuildStep ==
  \/ \E m \in MarkerIds : BuildGetBySource(m)
  \/ BuildGetLabels
  \/ BuildGetScene
  \/ BuildGetActors
  \/ BuildReturn

NextRead ==
  \/ \E p \in Callers :
       \/ \E ids \in LabelIdLists : SetLabelsCallAlone(p, Mk(1), ids)
       \/ SetLabelsStep(p)
  \/ BuildStep

SpecRead == Init /\ [][NextRead]_vars

(***************************************************************************)
(* SpecConc: callers enter Marker.setLabels whenever they like.            *)
(***************************************************************************)
NextConc ==
  \E p \in Callers :
    \/ \E ids \in LabelIdLists : SetLabelsCall(p, Mk(1), ids)
    \/ SetLabelsStep(p)

SpecConc == Init /\ [][NextConc]_vars

(***************************************************************************)
(* SpecDoc: documents are built while labels and scenes are deleted.       *)
(***************************************************************************)
NextDoc ==
  \/ BuildStep
  \/ \E l \in LabelIds : DeleteLabel(l)
  \/ \E s \in SceneIds : DeleteScene(s)

SpecDoc == Init /\ [][NextDoc]_vars

(***************************************************************************)
(* SpecIndex: indexMarkers runs over marker lists, under every configured  *)
(* slice size, over stores in which a label or a scene may have been       *)
(* deleted.  The store does not change during a run, so the awaits inside  *)
(* createMarkerSearchDoc are taken as one step.                            *)
(***************************************************************************)
MarkerLists == SeqsUpTo(MarkerIds, MaxMarkers)

InitIndex ==
  /\ InitReferences
  /\ labelStore \in {LabelIds, LabelIds \ {La(1)}}
  /\ sceneStore \in {SceneIds, SceneIds \ {Sc(1)}}
  /\ InitSetLabels /\ InitBuilder
  /\ argvSlice \in SliceValues
  /\ InitIndexIdle /\ InitSearchIdle

NextIndex ==
  \/ \E markers \in MarkerLists : IndexMarkersCall(markers)
  \/ IndexStep

SpecIndex == InitIndex /\ [][NextIndex]_vars

(***************************************************************************)
(* SpecIndexFail: indexMarkers against an index engine whose index.index   *)
(* calls may fail; the caller may retry a failed run.                      *)
(***************************************************************************)
InitIndexFail ==
  /\ InitStore /\ InitSetLabels /\ InitBuilder
  /\ argvSlice \in {Absent, Number(1), Number(2)}
  /\ InitIndexIdle /\ InitSearchIdle

NextIndexFail ==
  \/ \E markers \in MarkerLists : IndexMarkersCall(markers)
  \/ IndexStep
  \/ \E taken \in BOOLEAN : IndexFlushFails(taken)
  \/ IndexMarkersRetry

SpecIndexFail == InitIndexFail /\ [][NextIndexFail]_vars

(***************************************************************************)
(* SpecSearch: one searchMarkers call, for every choice of its arguments.  *)
(***************************************************************************)
Choices(field, values) == {<<>>} \cup {field :> v : v \in values}

SortByValues == {"", "$shuffle", "addedOn", "name", "rating", "bookmark", "duration"}
SortDirValues == {"asc", "desc", "ASC"}
SeedValues == {"default", "seed"}

OptionValues ==
  {query @@ favorite @@ bookmark @@ rating @@ include @@ exclude @@ sortBy @@ sortDir
     @@ skip @@ take @@ page :
     query \in Choices("query", {"term"}),
     favorite \in Choices("favorite", BOOLEAN),
     bookmark \in Choices("bookmark", {TRUE}),
     rating \in Choices("rating", {4}),
     include \in Choices("include", {<<La(1)>>}),
     exclude \in Choices("exclude", {<<La(2)>>}),
     sortBy \in Choices("sortBy", SortByValues),
     sortDir \in Choices("sortDir", SortDirValues),
     skip \in Choices("skip", {5}),
     take \in Choices("take", {3}),
     page \in Choices("page", 0..MaxPage)}

InitSearch ==
  /\ InitStore /\ crossReferences = InitialReferences(<<>>)
  /\ InitSetLabels /\ InitBuilder
  /\ argvSlice = Absent /\ InitIndexIdle
  /\ options \in OptionValues
  /\ shuffleSeed \in SeedValues
  /\ sPc = "idle"
  /\ searchArgs = <<>>
  /\ searchCalls = <<>>
  /\ searchError = "none"

NextSearch == SearchMarkers

SpecSearch == InitSearch /\ [][NextSearch]_vars

(***************************************************************************)
(* SpecUpdate: indexMarkers runs and updateMarkers calls over a store that *)
(* does not change; an updateMarkers call may run while indexMarkers does, *)
(* and begins when no other updateMarkers call is in progress.             *)
(***************************************************************************)
SyncMarkerLists == SeqsUpTo(MarkerIds, MaxSyncMarkers)

UpdateCallAlone(markers) ==
  /\ \A v \in Updaters : uPc[v] = "idle"
  /\ UpdateCall(1, markers)

InitUpdate ==
  /\ InitStore /\ crossReferences = InitialReferences(<<La(1), La(2)>>)
  /\ InitSetLabels /\ InitBuilder
  /\ argvSlice = Number(2)
  /\ InitIndexIdle /\ InitSearchIdle

NextUpdate ==
  \/ \E markers \in SyncMarkerLists : UpdateCallAlone(markers)
  \/ \E u \in Updaters : UpdateStep(u)
  \/ \E markers \in SyncMarkerLists : IndexMarkersCall(markers)
  \/ IndexStep

SpecUpdate == InitUpdate /\ [][NextUpdate]_vars

(***************************************************************************)
(* SpecFanOut: callers run Marker.setLabels, indexMarkers and              *)
(* updateMarkers, one operation at a time.  Nothing but a caller's own     *)
(* call starts any of them.                                                *)
(***************************************************************************)
Quiescent ==
  /\ \A p \in Callers : pc[p] = "idle"
  /\ ixPc = "idle"
  /\ \A u \in Updaters : uPc[u] = "idle"

InitFanOut ==
  /\ InitStore /\ crossReferences = InitialReferences(<<La(1)>>)
  /\ InitSetLabels /\ InitBuilder
  /\ argvSlice = Number(2)
  /\ InitIndexIdle /\ InitSearchIdle

NextFanOut ==
  \/ \E ids \in LabelIdLists : Quiescent /\ SetLabelsCallAlone(1, Mk(1), ids)
  \/ \E p \in Callers : SetLabelsStep(p)
  \/ \E markers \in SyncMarkerLists : Quiescent /\ IndexMarkersCall(markers)
  \/ IndexStep
  \/ \E markers \in SyncMarkerLists : Quiescent /\ UpdateCallAlone(markers)
  \/ \E u \in Updaters : UpdateStep(u)

SpecFanOut == InitFanOut /\ [][NextFanOut]_vars

(***************************************************************************)
(* SpecRace: two callers, each deleting a label of marker mk_1 and then    *)
(* calling updateMarkers with a list that has mk_1; the calls interleave   *)
(* at their awaits.                                                        *)
(***************************************************************************)
RaceMarkerLists == {markers \in SyncMarkerLists : Mk(1) \in Range(markers)}

InitRace ==
  /\ InitStore /\ crossReferences = InitialReferences(<<La(1), La(2)>>)
  /\ InitSetLabels /\ InitBuilder
  /\ argvSlice = Absent
  /\ InitIndexIdle /\ InitSearchIdle

NextRace ==
  \/ \E u \in Updaters, l \in LabelIds, markers \in RaceMarkerLists :
       MutateThenUpdate(u, l, markers)
  \/ \E u \in Updaters : UpdateStep(u)

SpecRace == InitRace /\ [][NextRace]_vars

(***************************************************************************)
(* SpecRemove: markers are removed, one by one or by scene, between        *)
(* Marker.setLabels calls.                                                 *)
(***************************************************************************)
NextRemove ==
  \/ Next
  \/ \E id \in MarkerIds : MarkerRemove(id)
  \/ \E scene \in SceneIds : MarkerRemoveByScene(scene)

SpecRemove == Init /\ [][NextRemove]_vars

(***************************************************************************)
(* SpecView: the movie details view loads pages while the movie's scenes   *)
(* change.  SpecViewEdit adds cover uploads and image removals.            *)
(***************************************************************************)
InitView ==
  /\ InitStore /\ crossReferences = InitialReferences(<<La(1)>>)
  /\ InitSetLabels /\ InitBuilder
  /\ argvSlice = Absent /\ InitIndexIdle /\ InitSearchIdle

NextView ==
  \/ InfiniteHandler
  \/ \E i \in 1..(MaxSceneChanges + 1) : FetchThen(i)
  \/ \E newVal \in ScenesValues : OnSceneChange(newVal)

SpecView == InitView /\ [][NextView]_vars

NextViewEdit ==
  \/ NextView
  \/ UploadCover
  \/ UploadCoverThen
  \/ \E index \in 1..(Len(InitialImages) + MaxUploads) : RemoveImageCall(index)
  \/ RemoveImagesServed
  \/ RemoveImageThen
  \/ RemoveImageCatch

SpecViewEdit == InitView /\ [][NextViewEdit]_vars

(***************************************************************************)
(* SpecBuild: buildMarkerIndex runs, a first time and again, while         *)
(* searchMarkers calls arrive.                                             *)
(***************************************************************************)
InitBuild ==
  /\ InitStore /\ crossReferences = InitialReferences(<<La(1)>>)
  /\ InitSetLabels /\ InitBuilder
  /\ argvSlice \in {Absent, Number(1)}
  /\ InitIndexRun /\ InitUnbuilt /\ InitSearchIdle

NextBuild ==
  \/ BuildCreateIndex
  \/ BuildIndexMarkers
  \/ IndexStep
  \/ BuildMarkerIndexReturn
  \/ SearchServed
  \/ SearchUnset
  \/ SearchReturn

SpecBuild == InitBuild /\ [][NextBuild]_vars

(***************************************************************************)
(* SpecStale: indexMarkers runs while a caller deletes label la_2, which   *)
(* only marker mk_1 carries, and then calls updateMarkers([mk_1]).         *)
(***************************************************************************)
InitStale ==
  /\ InitStore /\ crossReferences = InitialReferences(<<La(1), La(2)>>)
  /\ InitSetLabels /\ InitBuilder
  /\ argvSlice = Number(2)
  /\ InitIndexIdle /\ InitSearchIdle

NextStale ==
  \/ \E markers \in SyncMarkerLists : IndexMarkersCall(markers)
  \/ IndexStep
  \/ (\A v \in Updaters : uPc[v] = "idle") /\ MutateThenUpdate(1, La(2), <<Mk(1)>>)
  \/ \E u \in Updaters : UpdateStep(u)

SpecStale == InitStale /\ [][NextStale]_vars

(***************************************************************************)
(* SpecShuffle: a caller repeats its searchMarkers call, keeping every     *)
(* option but sortDir and choosing the shuffle seed again.                 *)
(***************************************************************************)
WithoutSortDir(o) == [f \in DOMAIN o \ {"sortDir"} |-> o[f]]

SearchAgain(sortDir, seed) ==
  /\ sPc = "done"
  /\ Len(searchCalls) < MaxSearches
  /\ options' = sortDir @@ WithoutSortDir(options)
  /\ shuffleSeed' = seed
  /\ sPc' = "idle"
  /\ UNCHANGED <<outsideSearch, searchArgs, searchCalls,
                 searchError>>

ShuffleOptionValues ==
  {query @@ favorite @@ sortBy @@ sortDir @@ page :
     query \in Choices("query", {"term"}),
     favorite \in Choices("favorite", {TRUE}),
     sortBy \in Choices("sortBy", SortByValues),
     sortDir \in Choices("sortDir", SortDirValues),
     page \in Choices("page", 0..MaxPage)}

InitShuffle ==
  /\ InitStore /\ crossReferences = InitialReferences(<<>>)
  /\ InitSetLabels /\ InitBuilder
  /\ argvSlice = Absent /\ InitIndexIdle
  /\ options \in ShuffleOptionValues
  /\ shuffleSeed \in SeedValues
  /\ sPc = "idle"
  /\ searchArgs = <<>>
  /\ searchCalls = <<>>
  /\ searchError = "none"

NextShuffle ==
  \/ SearchMarkers
  \/ \E sortDir \in Choices("sortDir", SortDirValues), seed \in SeedValues :
       SearchAgain(sortDir, seed)

SpecShuffle == InitShuffle /\ [][NextShuffle]_vars

(***************************************************************************)
(* Claims about Marker.setLabels                                           *)
(***************************************************************************)
LabelEdges(m) == {r \in crossReferences : r.from = m /\ IsLabelReference(r)}

\* C3: when a Marker.setLabels(marker, labelIds) call that ran alone has
\* completed, the marker has exactly one label edge per distinct id of
\* labelIds ([x, x, y] leaves exactly the two edges marker->x, marker->y).
C3_EdgesAreDistinctIds ==
  \A p \in Callers :
    pc[p] = "done" =>
      /\ Cardinality(LabelEdges(slMarker[p])) = Cardinality(Range(slLabelIds[p]))
      /\ {r.to : r \in LabelEdges(slMarker[p])} = Range(slLabelIds[p])

C3_Witness ==
  \E p \in Callers :
    /\ pc[p] = "done"
    /\ slLabelIds[p] = <<La(1), La(1), La(2)>>
    /\ {r.to : r \in LabelEdges(slMarker[p])} = {La(1), La(2)}
    /\ Cardinality(LabelEdges(slMarker[p])) = 2

\* C4: a reader of a marker's edges that reads while one Marker.setLabels
\* call on that marker is in progress sees either the label set the call
\* found or the label set it was given, never anything else.
C4_ReaderSeesOldOrNew ==
  bWriter.during => Range(bRefs) \in {bWriter.old, bWriter.new}

\* C5: once two Marker.setLabels calls on the same marker have both
\* completed, the marker's label set is the argument of one of them.
C5_OneCallWins ==
  (\A p \in Callers : pc[p] = "done") =>
    \E p \in Callers : LabelTargets(slMarker[p]) = Range(slLabelIds[p])

\* C6: the store never holds two label edges with the same source and target.
C6_NoDuplicateLabelEdge ==
  \A r, q \in crossReferences :
    (IsLabelReference(r) /\ r.from = q.from /\ r.to = q.to) => r._id = q._id

(***************************************************************************)
(* Claims about createMarkerSearchDoc                                      *)
(***************************************************************************)
OwnFieldsIntact(d, marker) ==
  /\ d._id = marker._id
  /\ d.addedOn = marker.addedOn
  /\ d.name = marker.name
  /\ d.rating = marker.rating
  /\ d.bookmark = marker.bookmark
  /\ d.favorite = marker.favorite

C8_DanglingLabelOmitted ==
  bPc = "done" =>
    /\ IsDoc(doc)
    /\ Range(doc.labels) \cap bMissing = {}
    /\ Range(doc.labels) \subseteq Range(bRefs)
    /\ Range(bRefs) \cap labelStore \subseteq Range(doc.labels)
    /\ doc.labelNames = Flat([i \in 1..Len(doc.labels) |->
                                NameAndAliases(LabelEntity(doc.labels[i]))])

C8_Witness ==
  /\ bPc = "done"
  /\ IsDoc(doc)
  /\ La(1) \in bMissing
  /\ Range(bRefs) = {La(1), La(2)}
  /\ doc.labels = <<La(2)>>
  /\ doc.labelNames = <<"label">>

(***************************************************************************)
(* Claims about indexMarkers                                               *)
(***************************************************************************)
FlushSizes == [i \in 1..Len(flushes) |-> Len(flushes[i])]

RECURSIVE Sum(_)
Sum(sizes) == IF sizes = <<>> THEN 0 ELSE Head(sizes) + Sum(Tail(sizes))

\* the configured slice size is a number >= 1
SliceAtLeastOne == argvSlice # Absent /\ argvSlice.num >= argvSlice.den

\* C1: with slice size N (an integer >= 1), a completed indexMarkers call
\* over N markers made exactly one index.index call, with N documents; over
\* N+1 markers it made exactly two, with N documents and then 1 document.
C1_FlushBoundary ==
  (ixPc = "done" /\ SliceAtLeastOne /\ argvSlice.den = 1) =>
    /\ Len(ixMarkers) = argvSlice.num => FlushSizes = <<argvSlice.num>>
    /\ Len(ixMarkers) = argvSlice.num + 1 => FlushSizes = <<argvSlice.num, 1>>

C1_Witness ==
  /\ ixPc = "done"
  /\ argvSlice = Number(2)
  /\ Len(ixMarkers) = 3
  /\ FlushSizes = <<2, 1>>

C2_Returned ==
  (ixPc = "done" /\ SliceAtLeastOne) =>
    /\ ixResult = Len(ixMarkers)
    /\ Sum(FlushSizes) = Len(ixMarkers)
    /\ Flat(flushes) = [i \in 1..Len(ixMarkers) |-> CreateMarkerSearchDoc(ixMarkers[i])]
    /\ (Len(ixMarkers) * argvSlice.den) % argvSlice.num # 0 =>
         /\ flushes # <<>>
         /\ ~SliceReached(Len(flushes[Len(flushes)]), argvSlice)

\* what is left to do in a run: strictly smaller after every step of it
Running == ixPc \in {"loop", "flush", "finalFlush"}
Remaining ==
  3 * (Len(ixMarkers) - ixI)
    + (CASE ixPc = "flush" -> 4 [] ixPc = "loop" -> 2 [] ixPc = "finalFlush" -> 1
         [] OTHER -> 0)

\* C2: for every marker list and every slice size >= 1, an indexMarkers call
\* completes (a run always has a next step, and every step leaves less to
\* do); it returns the number of markers, which is the number of documents
\* passed to index.index; the batches passed, one after the other, are the
\* markers' documents, each once; and when the slice size does not divide
\* the number of markers the last batch is a partial one.
C2_AllIndexedOnce ==
  /\ []C2_Returned
  /\ []((Running /\ SliceAtLeastOne) =>
         (CanBuild \/ CanFlush \/ CanEndLoop \/ CanFinalFlush))
  /\ [][(Running /\ SliceAtLeastOne) => (Remaining' < Remaining /\ ixPc' # "failed")]_vars

C2_Witness ==
  /\ ixPc = "done"
  /\ argvSlice = Number(2)
  /\ Len(ixMarkers) = 3
  /\ ixResult = 3
  /\ Len(flushes) = 2

(***************************************************************************)
(* Claims about searchMarkers                                              *)
(***************************************************************************)
RecognizedSortKeys == {"addedOn", "name", "rating", "bookmark"}

\* C9: a searchMarkers call whose sortBy is neither "$shuffle" nor one of
\* addedOn, name, rating, bookmark fails with InvalidSortKey, and no
\* index.search call is made for it.
C9_InvalidSortKeyRejected ==
  (/\ sPc = "done"
   /\ Has(options, "sortBy")
   /\ options.sortBy \notin RecognizedSortKeys \cup {"$shuffle", ""}) =>
    /\ searchError = "InvalidSortKey"
    /\ searchCalls = <<>>

\* C10: for sortBy among addedOn, name, rating, bookmark the sort passed to
\* index.search has sort_by = sortBy, sort_type "string" for name and
\* "number" for the others, and sort_asc true exactly when sortDir is "asc";
\* when sortBy is not given, no sort is passed.
C10_FieldSort ==
  sPc = "done" =>
    LET sort == searchCalls[Len(searchCalls)].sort
    IN  /\ (Has(options, "sortBy") /\ options.sortBy \in RecognizedSortKeys) =>
             /\ sort # NoSort
             /\ sort.sort_by = options.sortBy
             /\ sort.sort_type = (IF options.sortBy = "name" THEN "string" ELSE "number")
             /\ sort.sort_asc = (Has(options, "sortDir") /\ options.sortDir = "asc")
        /\ ~Has(options, "sortBy") => sort = NoSort

C10_Witness ==
  /\ sPc = "done"
  /\ Has(options, "sortBy") /\ options.sortBy = "name"
  /\ Has(options, "sortDir") /\ options.sortDir = "ASC"
  /\ searchCalls[1].sort = [sort_by |-> "name", sort_asc |-> FALSE, sort_type |-> "string"]
(***************************************************************************)
(* C11: searchMarkers calls that ask for "$shuffle" and differ at most in  *)
(* sortDir and in the seed: each sends sort_by "$shuffle" with the seed as *)
(* sort_type; two of them with the same seed send identical requests,      *)
(* whatever their sortDir; two with different seeds send different sort    *)
(* specifications.                                                         *)
(***************************************************************************)
IsShuffleCall(i) ==
  Has(searchArgs[i].options, "sortBy") /\ searchArgs[i].options.sortBy = "$shuffle"

C11_ShuffleDeterminism ==
  \A i, j \in 1..Len(searchCalls) :
    (/\ IsShuffleCall(i) /\ IsShuffleCall(j)
     /\ WithoutSortDir(searchArgs[i].options) = WithoutSortDir(searchArgs[j].options))
    => /\ searchCalls[i].sort.sort_by = "$shuffle"
       /\ searchCalls[i].sort.sort_type = searchArgs[i].shuffleSeed
       /\ searchArgs[i].shuffleSeed = searchArgs[j].shuffleSeed
            => searchCalls[i] = searchCalls[j]
       /\ searchArgs[i].shuffleSeed # searchArgs[j].shuffleSeed
            => searchCalls[i].sort # searchCalls[j].sort

C11_Witness ==
  /\ Len(searchCalls) = 2
  /\ IsShuffleCall(1) /\ IsShuffleCall(2)
  /\ searchArgs[1].shuffleSeed # searchArgs[2].shuffleSeed
  /\ searchArgs[1].options # searchArgs[2].options
  /\ searchCalls[1].sort # searchCalls[2].sort
(***************************************************************************)
(* C12: the filter searchMarkers sends is one AND grouping whose children  *)
(* are one predicate for each filter the options set, in the order         *)
(* favorite, bookmark, rating, include, exclude; a filter the options do   *)
(* not have adds no child, and with no filter the child list is empty.     *)
(***************************************************************************)
FilterOrder == <<"favorite", "bookmark", "rating", "include", "exclude">>

FilterKind ==
  [favorite |-> <<"favorite", "=">>, bookmark |-> <<"bookmark", "exists">>,
   rating |-> <<"rating", ">=">>, include |-> <<"labels", "all">>,
   exclude |-> <<"labels", "none">>]

IsActive(o, f) ==
  /\ Has(o, f)
  /\ CASE f = "favorite" -> o.favorite
        [] f = "bookmark" -> o.bookmark
        [] f = "rating" -> o.rating # 0
        [] f = "include" -> o.include # <<>>
        [] f = "exclude" -> o.exclude # <<>>

ActiveFilters(o) == SelectSeq(FilterOrder, LAMBDA f : IsActive(o, f))

C12_FilterTree ==
  \A i \in 1..Len(searchCalls) :
    LET o == searchArgs[i].options
        filter == searchCalls[i].filter
        active == ActiveFilters(o)
    IN /\ filter.type = "AND"
       /\ Len(filter.children) = Len(active)
       /\ \A k \in 1..Len(active) :
            <<filter.children[k].property, filter.children[k].operation>>
              = FilterKind[active[k]]
       /\ \A f \in DOMAIN FilterKind :
            ~Has(o, f) =>
              \A k \in 1..Len(filter.children) :
                <<filter.children[k].property, filter.children[k].operation>>
                  # FilterKind[f]
       /\ (\A f \in DOMAIN FilterKind : ~Has(o, f)) => filter.children = <<>>

C12_Witness ==
  /\ Len(searchCalls) = 1
  /\ ActiveFilters(searchArgs[1].options) = <<"bookmark", "rating", "exclude">>
  /\ Len(searchCalls[1].filter.children) = 3
  /\ searchCalls[1].filter.children[2].property = "rating"
(***************************************************************************)
(* C13: a searchMarkers call given page = p >= 0 and neither skip nor take *)
(* sends skip = p * s and take = s, s being the page size.                 *)
(***************************************************************************)
IsPageOnly(o) == Has(o, "page") /\ ~Has(o, "skip") /\ ~Has(o, "take")

C13_PageToSkipTake ==
  \A i \in 1..Len(searchCalls) :
    LET o == searchArgs[i].options
    IN (IsPageOnly(o) /\ o.page >= 0)
         => /\ searchCalls[i].skip = o.page * PageSize
            /\ searchCalls[i].take = PageSize

C13_Witness ==
  /\ Len(searchCalls) = 1
  /\ IsPageOnly(searchArgs[1].options)
  /\ searchArgs[1].options.page = 2
  /\ searchCalls[1].skip = 2 * PageSize
  /\ searchCalls[1].take = PageSize
(***************************************************************************)
(* C14: an indexMarkers call over the markers of the call before it, with  *)
(* the store unchanged, leaves the index as it found it: one document for  *)
(* each marker id, none twice.                                             *)
(***************************************************************************)
OneDocPerId(items) ==
  \A i, j \in 1..Len(items) : items[i]._id = items[j]._id => i = j

C14_ReindexIdempotent ==
  (ixPc = "done" /\ ixSame)
    => /\ indexDocs = indexBefore
       /\ OneDocPerId(indexDocs)
       /\ Range(ixMarkers) \subseteq DocIds(indexDocs)

C14_Witness ==
  /\ ixPc = "done" /\ ixSame
  /\ Len(ixMarkers) = 3
  /\ Len(flushes) = 2
  /\ Len(indexDocs) = 2
  /\ indexDocs = indexBefore
(***************************************************************************)
(* C15: an updateMarkers call makes one index.update call, with one        *)
(* document for each of its markers, in their order; whatever indexMarkers *)
(* and updateMarkers calls have run, the index holds exactly one document  *)
(* for each marker id it was given.                                        *)
(***************************************************************************)
C15_OneDocPerMarker ==
  /\ OneDocPerId(indexDocs)
  /\ DocIds(indexDocs) = sentIds
  /\ \A u \in Updaters :
       uPc[u] = "done"
         => /\ Len(updateCalls[u]) = 1
            /\ Len(updateCalls[u][1]) = Len(uMarkers[u])
            /\ \A i \in 1..Len(uMarkers[u]) : updateCalls[u][1][i]._id = uMarkers[u][i]

C15_Witness ==
  /\ ixRuns = 1 /\ ixPc = "idle"
  /\ uPc[1] = "done"
  /\ uMarkers[1] = <<Mk(2), Mk(1)>>
  /\ Len(updateCalls[1]) = 1
  /\ Len(indexDocs) = 2
(***************************************************************************)
(* C16: when an index.index call of an indexMarkers run fails, the caller  *)
(* is told how many documents the run had indexed until then; and a run    *)
(* that completes, a retry included, leaves the document of every marker   *)
(* of its list in the index.                                               *)
(***************************************************************************)
IndexedDoc(id) == indexDocs[PositionOf(indexDocs, id)]

C16_FailureReportsCount ==
  /\ (ixPc = "failed" /\ ixResult = IndexError /\ Len(flushes) >= 1)
       => (Has(ixResult, "count") /\ ixResult.count = Sum(FlushSizes))
  /\ ixPc = "done"
       => \A m \in Range(ixMarkers) :
            /\ m \in DocIds(indexDocs)
            /\ IndexedDoc(m) = CreateMarkerSearchDoc(m)
(***************************************************************************)
(* C17: once Marker.setLabels has changed a marker's labels and no         *)
(* operation is in progress, the labelNames of every indexed marker        *)
(* document are those of the labels the store gives the marker: the        *)
(* re-indexing is done without the caller asking for it.                   *)
(***************************************************************************)
C17_FanOutBySynchronizer ==
  (Quiescent /\ calls >= 1)
    => \A i \in 1..Len(indexDocs) :
         indexDocs[i].labelNames = CreateMarkerSearchDoc(indexDocs[i]._id).labelNames
(***************************************************************************)
(* C19: at every point of an indexMarkers run the batches flushed so far,  *)
(* in call order, followed by the batch being filled, are the documents of *)
(* the markers taken so far, in input order; and while a flush is awaited  *)
(* the run does nothing but complete that flush: no document is built and  *)
(* no other flush begins.                                                  *)
(***************************************************************************)
DocsOfFirst(n) == [i \in 1..n |-> CreateMarkerSearchDoc(ixMarkers[i])]

FlushAwaited == ixPc \in {"flush", "finalFlush"}

C19_FlushesInOrder ==
  /\ [](ixPc \in {"loop", "flush", "finalFlush", "done"}
          => Flat(flushes) \o docs = DocsOfFirst(ixI))
  /\ [][FlushAwaited
          => /\ ixI' = ixI
             /\ flushes' = Append(flushes, docs)
             /\ ~FlushAwaited']_vars

C19_Witness ==
  /\ ixPc = "flush"
  /\ Len(flushes) = 1
  /\ ixI = 4
  /\ Len(ixMarkers) = 4
  /\ flushes[1] # docs
(***************************************************************************)
(* C20: two updateMarkers calls for marker mk_1, each begun after a change *)
(* of the store, may interleave; once both have completed, the indexed     *)
(* document of mk_1 is the document built from the store as it then is.    *)
(***************************************************************************)
C20_LaterWriteWins ==
  (updates = 2 /\ \A u \in Updaters : uPc[u] = "idle")
    => /\ Mk(1) \in DocIds(indexDocs)
       /\ IndexedDoc(Mk(1)) = CreateMarkerSearchDoc(Mk(1))
(***************************************************************************)
(* C21: a Marker.setLabels(marker, ids) call that runs alone changes only  *)
(* the marker's label edges: at every step of the call every edge from     *)
(* another source, and every edge of the marker whose target does not      *)
(* start with "la_", stays in the store unchanged; and when the call has   *)
(* completed the targets of the marker's "la_" edges are the distinct ids  *)
(* it was given.                                                           *)
(***************************************************************************)
FrameEdges(m) ==
  {r \in crossReferences : r.from # m \/ ~StartsWith(r.to, "la_")}

LabelTargetsOf(m) ==
  {r.to : r \in {e \in crossReferences : e.from = m /\ StartsWith(e.to, "la_")}}

C21_SetLabelsFrame ==
  /\ [][\A p \in Callers :
          pc[p] \in {"running", "done"}
            => FrameEdges(slMarker[p])' = FrameEdges(slMarker[p])]_vars
  /\ [](\A p \in Callers :
          pc[p] = "done" => LabelTargetsOf(slMarker[p]) = Range(slLabelIds[p]))

C21_Witness ==
  \E p \in Callers :
    /\ pc[p] = "done"
    /\ slLabelIds[p] = <<La(2), La(2)>>
    /\ LabelTargetsOf(Mk(1)) = {La(2)}
    /\ FrameEdges(Mk(1)) = InitialReferences(<<>>)
    /\ nextId > FirstFreeId
(***************************************************************************)
(* C22: every index.index call of indexMarkers carries at least one        *)
(* document and at most S documents, S being the configured slice size, or *)
(* 5000 when it is absent or 0.  Stated for the positive values of S, the  *)
(* non-integer ones included (no call can carry between 1 and S documents  *)
(* when S is negative).                                                    *)
(***************************************************************************)
C22_FlushSizeBounded ==
  SliceSize(argvSlice).num > 0
    => \A i \in 1..Len(flushes) :
         /\ Len(flushes[i]) >= 1
         /\ Len(flushes[i]) * SliceSize(argvSlice).den <= SliceSize(argvSlice).num
(***************************************************************************)
(* C23: when marker mk_1 was changed and updateMarkers([mk_1]) ran after   *)
(* the change, and every indexMarkers run and updateMarkers call has       *)
(* completed, the indexed document of mk_1 is the one a rebuild from the   *)
(* stores gives, also when the update completed while an indexMarkers run  *)
(* over mk_1 and mk_2 held a document of mk_1 built before the change.     *)
(***************************************************************************)
C23_NoStaleDocument ==
  (/\ updates >= 1
   /\ \A u \in Updaters : uPc[u] = "idle"
   /\ ixPc \in {"idle", "done"}
   /\ ixMarkers = <<Mk(1), Mk(2)>>
   /\ Mk(1) \in DocIds(indexDocs))
    => IndexedDoc(Mk(1)) = CreateMarkerSearchDoc(Mk(1))
(***************************************************************************)
(* C24: the cross-reference store holds no edge whose source is a marker   *)
(* that Marker.remove or Marker.removeByScene has removed.                 *)
(***************************************************************************)
C24_RemoveCascades ==
  \A r \in crossReferences :
    StartsWith(r.from, "mk_") => r.from \in markerStore
(***************************************************************************)
(* C25: in the movie details view the images list is the concatenation of  *)
(* the result pages 0..page-1 of the current scenes.                       *)
(***************************************************************************)
RECURSIVE PagesUpTo(_, _, _)
PagesUpTo(store, sc, n) ==
  IF n = 0 THEN <<>>
  ELSE PagesUpTo(store, sc, n - 1) \o GetImages(store, n - 1, sc)

C25_ImagesArePages == images = PagesUpTo(imageStore, scenes, imagePage)

(***************************************************************************)
(* C26: when the removeImages mutation has succeeded, removeImage takes    *)
(* out of the images list the image whose id was sent, and nothing else;   *)
(* when it has failed the list stays as it is.                             *)
(***************************************************************************)
C26_RemovesTheSentImage ==
  /\ [][(rmPc = "served" /\ rmPc' = "removed")
         => images' = SelectSeq(images, LAMBDA x : x # rmId)]_vars
  /\ [][(rmPc = "sent" /\ rmPc' = "failed") => images' = images]_vars
(***************************************************************************)
(* C27: index.search is only called on a handle whose index holds a        *)
(* document for every marker of the store, buildMarkerIndex having         *)
(* returned.                                                               *)
(***************************************************************************)
FullyBuilt ==
  /\ indexHandle > 0
  /\ bmPc = "idle"
  /\ markerStore \subseteq DocIds(indexDocs)

C27_ServedWhenBuilt == [][searchCalls' # searchCalls => FullyBuilt]_vars
====
